---- MODULE Spec2Model ----
(***************************************************************************)
(* Model of three utilities of the terminal interface:                     *)
(*   components/base_block.py   BaseBlock (live display block lifecycle)   *)
(*   utils/get_config.py        get_config_path, get_config                *)
(*   utils/find_image_path.py   find_image_path                            *)
(* Each utility has its own specification (SpecBlock, SpecConfig,          *)
(* SpecFinder); the variables of the other two stay at their idle values.  *)
(***************************************************************************)
EXTENDS Integers, Sequences, FiniteSets, TLC

VARIABLES
    \* ---- BaseBlock ----
    kind,        \* class of the block object: "BaseBlock" or "Subclass"
    live,        \* state of self.live: "started" or "stopped"
    log,         \* every observable event on the live session, in order
    lastOp,      \* the last method call: [name, arg, completes]
    lastEvents,  \* the events the last call produced, in order
    outcome,     \* how the last call ended: "returned" or an exception name
    ncalls,      \* number of method calls made so far
    \* ---- get_config ----
    fs,          \* the filesystem: node |-> "absent" | "dir" | "user" | "tmpl"
    pre,         \* the filesystem as it was before the last call
    cand,        \* the path argument of the last call
    op,          \* the last call: "none", "get_config_path" or "get_config"
    res,         \* the result of the last call
    prev,        \* argument and result of the call before the last one
    seen,        \* the branches of get_config_path taken so far
    \* ---- find_image_path ----
    text,        \* the text argument (a sequence of tokens)
    files,       \* the paths that exist on the filesystem
    result,      \* the value find_image_path returned
    found        \* TRUE once find_image_path has been called

blockVars  == <<kind, live, log, lastOp, lastEvents, outcome, ncalls>>
configVars == <<fs, pre, cand, op, res, prev, seen>>
finderVars == <<text, files, result, found>>
vars == <<kind, live, log, lastOp, lastEvents, outcome, ncalls,
          fs, pre, cand, op, res, prev, seen, text, files, result, found>>

(***************************************************************************)
(* Bounds.                                                                 *)
(***************************************************************************)
MaxCalls == 3
MaxLen == 4

(***************************************************************************)
(*                              BaseBlock                                  *)
(***************************************************************************)
Kinds == {"BaseBlock", "Subclass"}
Messages == {"m1", "m2"}

RefreshEv(cursor) == IF cursor THEN "refresh(cursor=True)" ELSE "refresh(cursor=False)"
UpdateEv(m) == IF m = "m1" THEN "update(m1)" ELSE "update(m2)"

\* A subclass overrides refresh and update_from_message.  An override either
\* completes normally, and then its effect is one observable repaint or
\* update, or it raises.
subclass_refresh(cursor, completes) ==
    IF completes THEN [events |-> <<RefreshEv(cursor)>>, exc |-> "none"]
    ELSE [events |-> <<>>, exc |-> "SubclassError"]

subclass_update_from_message(m, completes) ==
    IF completes THEN [events |-> <<UpdateEv(m)>>, exc |-> "none"]
    ELSE [events |-> <<>>, exc |-> "SubclassError"]

\* BaseBlock.__init__: self.live = Live(...); self.live.start()
BlockInit ==
    /\ kind \in Kinds
    /\ live = "started"
    /\ log = <<"start">>
    /\ lastOp = [name |-> "__init__", arg |-> "", completes |-> TRUE]
    /\ lastEvents = <<"start">>
    /\ outcome = "returned"
    /\ ncalls = 0

refresh_mutReturns(k, cursor, completes) ==
    IF k = "BaseBlock" THEN [events |-> <<>>, exc |-> "none"]
    ELSE subclass_refresh(cursor, completes)

\* self.refresh(cursor): dispatches to the override when there is one,
\* and otherwise raises NotImplementedError.
refresh(k, cursor, completes) ==
    IF k = "BaseBlock" THEN [events |-> <<>>, exc |-> "NotImplementedError"]
    ELSE subclass_refresh(cursor, completes)

\* self.update_from_message(message)
update_from_message(k, m, completes) ==
    IF k = "BaseBlock" THEN [events |-> <<>>, exc |-> "NotImplementedError"]
    ELSE subclass_update_from_message(m, completes)

end_mutStopFirst(k, completes) ==
    LET r == refresh(k, FALSE, completes) IN
    [events |-> <<"stop">> \o r.events, exc |-> r.exc]

end_mutFinally(k, completes) ==
    LET r == refresh(k, FALSE, completes) IN
    [events |-> r.events \o <<"stop">>, exc |-> r.exc]

\* end(): self.refresh(cursor=False); self.live.stop()
\* An exception of refresh leaves end() before live.stop() is reached.
end(k, completes) ==
    LET r == refresh(k, FALSE, completes) IN
    IF r.exc # "none" THEN r
    ELSE [events |-> r.events \o <<"stop">>, exc |-> "none"]

\* The live session after a sequence of events: Live.stop() stops it.
LiveAfter(l, events) ==
    IF \E i \in 1..Len(events) : events[i] = "stop" THEN "stopped" ELSE l

Finish(name, arg, completes, r) ==
    /\ ncalls < MaxCalls
    /\ ncalls' = ncalls + 1
    /\ lastOp' = [name |-> name, arg |-> arg, completes |-> completes]
    /\ lastEvents' = r.events
    /\ log' = log \o r.events
    /\ live' = LiveAfter(live, r.events)
    /\ outcome' = IF r.exc = "none" THEN "returned" ELSE r.exc
    /\ UNCHANGED kind
    /\ UNCHANGED <<configVars, finderVars>>

Call_update_from_message ==
    \E m \in Messages, completes \in BOOLEAN :
        Finish("update_from_message", m, completes, update_from_message(kind, m, completes))

Call_refresh ==
    \E cursor \in BOOLEAN, completes \in BOOLEAN :
        Finish("refresh", IF cursor THEN "True" ELSE "False", completes,
               refresh(kind, cursor, completes))

Call_end ==
    \E completes \in BOOLEAN :
        Finish("end", "", completes, end(kind, completes))

NextBlock == Call_update_from_message \/ Call_refresh \/ Call_end

(***************************************************************************)
(*                              get_config                                 *)
(* A path is a record: abs (it starts with "/"), comps (its components)    *)
(* and slash (it ends with a separator).  The empty string is the relative *)
(* path without components; "/" is the absolute one.                       *)
(***************************************************************************)
config_filename == "config.yaml"

P(abs, comps) == [abs |-> abs, comps |-> comps, slash |-> FALSE]
EmptyPath == P(FALSE, <<>>)
\* stands for "no path" where a call raised
NoPath == [abs |-> FALSE, comps |-> <<>>, slash |-> TRUE]

get_storage_path == P(TRUE, <<"storage">>)
getcwd == P(TRUE, <<"cwd">>)
curdir == P(FALSE, <<".">>)

Front(s) == SubSeq(s, 1, Len(s) - 1)

\* os.path.join(a, b)
join(a, b) ==
    IF b.abs THEN b
    ELSE IF a = EmptyPath THEN b
    ELSE [abs |-> a.abs, comps |-> a.comps \o b.comps,
          slash |-> IF b.comps = <<>> THEN TRUE ELSE b.slash]

\* os.path.dirname(p)
dirname(p) ==
    IF p.slash THEN [p EXCEPT !.slash = FALSE]
    ELSE IF p.comps = <<>> THEN p
    ELSE [abs |-> p.abs, comps |-> Front(p.comps), slash |-> FALSE]

user_config_path == join(get_storage_path, P(FALSE, <<config_filename>>))

\* The nodes of the filesystem the model follows, as absolute component
\* sequences.  The root always is a directory.
Universe ==
    { <<"storage">>, <<"storage", config_filename>>, <<"storage", "sub">>,
      <<"storage", "sub", config_filename>>,
      <<"cwd">>, <<"cwd", config_filename>>, <<"cwd", "sub">>,
      <<"cwd", "sub", config_filename>>,
      <<"other">>, <<"other", config_filename>> }

FileKinds == {"user", "tmpl"}

Kind(f, n) == IF n = <<>> THEN "dir" ELSE IF n \in Universe THEN f[n] ELSE "absent"

\* Every node that exists lies in a directory, and the working directory exists.
WellFormed(f) ==
    /\ f[getcwd.comps] = "dir"
    /\ \A n \in Universe : f[n] # "absent" => Kind(f, Front(n)) = "dir"

NotDot(c) == c # "."

\* The node a path names: relative paths start at the working directory.
Norm(p) == (IF p.abs THEN <<>> ELSE getcwd.comps) \o SelectSeq(p.comps, NotDot)

MustBeDir(p) == p.slash \/ (p.comps # <<>> /\ p.comps[Len(p.comps)] = ".")

\* os.path.exists(p): false for the empty string; true for files and for
\* directories; a path that ends with a separator names a directory only.
exists(f, p) ==
    IF p = EmptyPath THEN FALSE
    ELSE LET k == Kind(f, Norm(p)) IN
         /\ k # "absent"
         /\ MustBeDir(p) => k = "dir"

isfile(f, p) == p # EmptyPath /\ ~MustBeDir(p) /\ Kind(f, Norm(p)) \in FileKinds

Prefixes(n) == {SubSeq(n, 1, i) : i \in 1..Len(n)}

\* os.makedirs(p, exist_ok=True)
makedirs(f, p) ==
    LET n == Norm(p) IN
    IF \E m \in Prefixes(n) : m # n /\ Kind(f, m) \in FileKinds
      THEN [fs |-> f, err |-> "NotADirectoryError"]
    ELSE IF Kind(f, n) \in FileKinds
      THEN [fs |-> f, err |-> "FileExistsError"]
    ELSE [fs |-> [m \in Universe |-> IF m \in Prefixes(n) THEN "dir" ELSE f[m]],
          err |-> "none"]

copy_mutEmptyFile(f, dst) ==
    LET n == Norm(dst) IN
    IF Kind(f, Front(n)) # "dir" THEN [fs |-> f, err |-> "FileNotFoundError"]
    ELSE [fs |-> [m \in Universe |-> IF m = n THEN "user" ELSE f[m]], err |-> "none"]

\* shutil.copy(default_config_path, dst): the bundled template is written to
\* dst, or into dst when dst is a directory (get_config_path never passes
\* one: it copies only to a path that does not exist).
copy(f, dst) ==
    LET n0 == Norm(dst)
        n  == IF Kind(f, n0) = "dir" THEN Append(n0, config_filename) ELSE n0
        k  == Kind(f, Front(n))
    IN  IF k = "absent" THEN [fs |-> f, err |-> "FileNotFoundError"]
        ELSE IF k \in FileKinds THEN [fs |-> f, err |-> "NotADirectoryError"]
        ELSE [fs |-> [m \in Universe |-> IF m = n THEN "tmpl" ELSE f[m]],
              err |-> "none"]

Found(path, branch, f) ==
    [ret |-> path, err |-> "none", fs |-> f, branch |-> branch, copied |-> NoPath]

Raised(err, f) ==
    [ret |-> NoPath, err |-> err, fs |-> f, branch |-> 4, copied |-> NoPath]

create_config_mutReturnsStoragePath(f, path, givenDir, target) ==
    LET md == IF givenDir THEN makedirs(f, dirname(path))
              ELSE makedirs(f, get_storage_path)
    IN  IF md.err # "none" THEN Raised(md.err, md.fs)
        ELSE LET cp == copy(md.fs, target) IN
             IF cp.err # "none" THEN Raised(cp.err, cp.fs)
             ELSE [ret |-> join(get_storage_path, path), err |-> "none", fs |-> cp.fs,
                   branch |-> 4, copied |-> target]

\* The last branch of get_config_path (lines 70-89): create the file.
\* target(path) is where the template goes once the directories are made.
create_config(f, path, givenDir, target) ==
    LET md == IF givenDir THEN makedirs(f, dirname(path))
              ELSE makedirs(f, get_storage_path)
    IN  IF md.err # "none" THEN Raised(md.err, md.fs)
        ELSE LET cp == copy(md.fs, target) IN
             IF cp.err # "none" THEN Raised(cp.err, cp.fs)
             ELSE [ret |-> target, err |-> "none", fs |-> cp.fs,
                   branch |-> 4, copied |-> target]

get_config_path_mutStorageFirst(f, path) ==
    IF exists(f, join(get_storage_path, path))
      THEN Found(join(get_storage_path, path), 2, f)
    ELSE IF exists(f, path) THEN Found(path, 1, f)
    ELSE IF exists(f, join(getcwd, path))
      THEN Found(join(curdir, path), 3, f)
    ELSE LET givenDir == dirname(path) # EmptyPath /\ ~exists(f, dirname(path)) IN
         create_config(f, path, givenDir,
                       IF givenDir THEN path ELSE join(get_storage_path, path))

get_config_path_mutCwdBeforeStorage(f, path) ==
    IF exists(f, path) THEN Found(path, 1, f)
    ELSE IF exists(f, join(getcwd, path))
      THEN Found(join(curdir, path), 3, f)
    ELSE IF exists(f, join(get_storage_path, path))
      THEN Found(join(get_storage_path, path), 2, f)
    ELSE LET givenDir == dirname(path) # EmptyPath /\ ~exists(f, dirname(path)) IN
         create_config(f, path, givenDir,
                       IF givenDir THEN path ELSE join(get_storage_path, path))

get_config_path_mutNoStorageCheck(f, path) ==
    IF exists(f, path) THEN Found(path, 1, f)
    ELSE IF exists(f, join(getcwd, path))
      THEN Found(join(curdir, path), 3, f)
    ELSE LET givenDir == dirname(path) # EmptyPath /\ ~exists(f, dirname(path)) IN
         create_config(f, path, givenDir,
                       IF givenDir THEN path ELSE join(get_storage_path, path))

\* get_config_path(path)
get_config_path(f, path) ==
    IF exists(f, path) THEN Found(path, 1, f)
    ELSE IF exists(f, join(get_storage_path, path))
      THEN Found(join(get_storage_path, path), 2, f)
    ELSE IF exists(f, join(getcwd, path))
      THEN Found(join(curdir, path), 3, f)
    ELSE LET givenDir == dirname(path) # EmptyPath /\ ~exists(f, dirname(path)) IN
         create_config(f, path, givenDir,
                       IF givenDir THEN path ELSE join(get_storage_path, path))

\* open(path, "r") followed by yaml.safe_load(file)
open_and_load(f, path) ==
    LET k == Kind(f, Norm(path)) IN
    IF path = EmptyPath \/ k = "absent" THEN [err |-> "FileNotFoundError", loaded |-> "none"]
    ELSE IF k = "dir" THEN [err |-> "IsADirectoryError", loaded |-> "none"]
    ELSE IF MustBeDir(path) THEN [err |-> "NotADirectoryError", loaded |-> "none"]
    ELSE [err |-> "none", loaded |-> k]

Candidates ==
    { EmptyPath,
      P(FALSE, <<config_filename>>),
      P(FALSE, <<"sub", config_filename>>),
      user_config_path,
      P(TRUE, <<"other", config_filename>>) }

NoRes == [ret |-> NoPath, err |-> "none", branch |-> 0, copied |-> NoPath,
          openErr |-> "none", loaded |-> "none"]
NoPrev == [called |-> FALSE, cand |-> EmptyPath, ret |-> NoPath, err |-> "none", branch |-> 0]

InitKinds == {"absent", "dir", "user"}

ConfigInit ==
    /\ fs \in {f \in [Universe -> InitKinds] : WellFormed(f)}
    /\ pre = fs
    /\ cand = EmptyPath
    /\ op = "none"
    /\ res = NoRes
    /\ prev = NoPrev
    /\ seen = {}

Record(name, path, r, o) ==
    /\ op' = name
    /\ cand' = path
    /\ pre' = fs
    /\ fs' = r.fs
    /\ res' = [ret |-> r.ret, err |-> r.err, branch |-> r.branch, copied |-> r.copied,
               openErr |-> o.err, loaded |-> o.loaded]
    /\ prev' = [called |-> op # "none", cand |-> cand, ret |-> res.ret,
                err |-> res.err, branch |-> res.branch]
    /\ seen' = seen \cup {r.branch}
    /\ UNCHANGED <<blockVars, finderVars>>

Call_get_config_path ==
    \E path \in Candidates :
        Record("get_config_path", path, get_config_path(fs, path),
               [err |-> "none", loaded |-> "none"])

\* get_config(path): path = get_config_path(path); open; yaml.safe_load
Call_get_config ==
    \E path \in Candidates :
        LET r == get_config_path(fs, path) IN
        Record("get_config", path, r,
               IF r.err # "none" THEN [err |-> "none", loaded |-> "none"]
               ELSE open_and_load(r.fs, r.ret))

NextConfig == Call_get_config_path \/ Call_get_config

(***************************************************************************)
(*                            find_image_path                              *)
(* A text is a sequence of tokens.  A token is one character, except that  *)
(* an image extension with its dot (".png", ".jpeg") is one token.  The    *)
(* pattern consumes an extension as a whole where a match ends; the last   *)
(* letter of an extension no match has consumed can be the drive letter of *)
(* the next match, which then starts with "g".  "C" is a letter, " " a     *)
(* character that is not one.                                              *)
(***************************************************************************)
Tokens == {"/", "\\", ":", "\n", "C", " ", ".png", ".jpeg"}
Ext == {".png", ".jpeg"}
\* the characters [^:\n] leaves out
Excluded == {":", "\n"}
\* [A-Za-z] matches a letter, also the last letter of an extension
EndsWithLetter(t) == t = "C" \/ t \in Ext

\* The substring of t from the last character of t[i] to the end of t[j].
Sub(t, i, j) ==
    IF t[i] \in Ext /\ i < j THEN <<"g">> \o SubSeq(t, i + 1, j) ELSE SubSeq(t, i, j)

Texts == UNION {[1..n -> Tokens] : n \in 0..MaxLen}

\* find_image_path returns None: no match is the empty string
NoMatch == <<>>

Width(t) == IF t = ".png" THEN 4 ELSE IF t = ".jpeg" THEN 5 ELSE 1

RECURSIVE StrLen(_)
\* len(s), in characters
StrLen(s) == IF s = <<>> THEN 0 ELSE Width(s[1]) + StrLen(Tail(s))

Min(S) == CHOOSE x \in S : \A y \in S : x <= y

\* [^:\n]*?\.(png|jpg|jpeg|PNG|JPG|JPEG) from position from on: the lazy
\* quantifier stops at the first extension, and fails when an excluded
\* character comes before it.  0 when there is no match.
LazyEnd(t, from) ==
    LET ks == {k \in from..Len(t) :
                  /\ t[k] \in Ext
                  /\ \A m \in from..(k - 1) : t[m] \notin Excluded /\ t[m] \notin Ext}
    IN  IF ks = {} THEN 0 ELSE Min(ks)

\* The end of the match of the pattern that starts at position i, or 0:
\* ([A-Za-z]:\\...) | (/...)
MatchEnd(t, i) ==
    IF t[i] = "/" THEN LazyEnd(t, i + 1)
    ELSE IF EndsWithLetter(t[i]) /\ i + 2 <= Len(t) /\ t[i + 1] = ":" /\ t[i + 2] = "\\"
      THEN LazyEnd(t, i + 3)
    ELSE 0

RECURSIVE re_finditer(_, _)
\* [match.group() for match in re.finditer(pattern, text)] from position i
\* on: the matches, leftmost first, none overlapping another.
re_finditer(t, i) ==
    IF i > Len(t) THEN <<>>
    ELSE LET j == MatchEnd(t, i) IN
         IF j > 0 THEN <<Sub(t, i, j)>> \o re_finditer(t, j + 1)
         ELSE re_finditer(t, i + 1)

NotBackslash(c) == c # "\\"

\* match.replace("\\", "")
strip_backslashes(m) == SelectSeq(m, NotBackslash)

\* matches after line 31: the matches, then each match without backslashes
candidates(t) ==
    LET matches == re_finditer(t, 1) IN
    matches \o [i \in 1..Len(matches) |-> strip_backslashes(matches[i])]

RECURSIVE Collapse(_)
\* Repeated separators name the same file as a single one.
Collapse(s) ==
    IF Len(s) <= 1 THEN s
    ELSE IF s[1] = "/" /\ s[2] = "/" THEN Collapse(Tail(s))
    ELSE <<s[1]>> \o Collapse(Tail(s))

\* os.path.exists(s), for the strings of find_image_path
path_exists(fset, s) == Collapse(s) \in fset

MaxByLen_mutFirst(seq) == seq[1]

\* max(seq, key=len): the first element of the greatest length
MaxByLen(seq) ==
    LET i == CHOOSE i \in 1..Len(seq) :
                 /\ \A j \in 1..Len(seq) : StrLen(seq[j]) <= StrLen(seq[i])
                 /\ \A j \in 1..(i - 1) : StrLen(seq[j]) < StrLen(seq[i])
    IN  seq[i]

\* find_image_path(text)
find_image_path(t, fset) ==
    LET Here(m) == path_exists(fset, m)
        existing_paths == SelectSeq(candidates(t), Here)
    IN  IF existing_paths # <<>> THEN MaxByLen(existing_paths) ELSE NoMatch

Range(seq) == {seq[i] : i \in 1..Len(seq)}

\* Whether t[i..j] as a whole has the shape the pattern describes.
FullMatch(t, i, j) ==
    /\ t[j] \in Ext
    /\ \/ /\ t[i] = "/"
          /\ i < j
          /\ \A m \in (i + 1)..(j - 1) : t[m] \notin Excluded
       \/ /\ EndsWithLetter(t[i])
          /\ i + 2 < j
          /\ t[i + 1] = ":" /\ t[i + 2] = "\\"
          /\ \A m \in (i + 3)..(j - 1) : t[m] \notin Excluded

\* The substrings of the text that are image paths by their shape.
PathLike(t) ==
    {Sub(t, ij[1], ij[2]) :
        ij \in {xy \in (1..Len(t)) \X (1..Len(t)) : FullMatch(t, xy[1], xy[2])}}

\* The files find_image_path can tell apart for a text.
Nameable(t) == {Collapse(s) : s \in PathLike(t) \cup Range(candidates(t))}

FinderInit ==
    /\ text \in Texts
    /\ files \in SUBSET Nameable(text)
    /\ result = NoMatch
    /\ found = FALSE

Call_find_image_path ==
    /\ ~found
    /\ found' = TRUE
    /\ result' = find_image_path(text, files)
    /\ UNCHANGED <<text, files>>
    /\ UNCHANGED <<blockVars, configVars>>

NextFinder == Call_find_image_path

(***************************************************************************)
(*                            Specifications                               *)
(***************************************************************************)
BlockIdle ==
    /\ kind = "BaseBlock"
    /\ live = "started"
    /\ log = <<"start">>
    /\ lastOp = [name |-> "__init__", arg |-> "", completes |-> TRUE]
    /\ lastEvents = <<"start">>
    /\ outcome = "returned"
    /\ ncalls = 0

ConfigIdle ==
    /\ fs = [n \in Universe |-> IF n = getcwd.comps THEN "dir" ELSE "absent"]
    /\ pre = fs
    /\ cand = EmptyPath
    /\ op = "none"
    /\ res = NoRes
    /\ prev = NoPrev
    /\ seen = {}

FinderIdle ==
    /\ text = <<>>
    /\ files = {}
    /\ result = NoMatch
    /\ found = FALSE

InitBlock == BlockInit /\ ConfigIdle /\ FinderIdle
InitConfig == BlockIdle /\ ConfigInit /\ FinderIdle
InitFinder == BlockIdle /\ ConfigIdle /\ FinderInit

SpecBlock == InitBlock /\ [][NextBlock]_vars
SpecConfig == InitConfig /\ [][NextConfig]_vars
SpecFinder == InitFinder /\ [][NextFinder]_vars

Init == InitBlock \/ InitConfig \/ InitFinder
Next == NextBlock \/ NextConfig \/ NextFinder
Spec == Init /\ [][Next]_vars

(***************************************************************************)
(*                               Claims                                    *)
(***************************************************************************)

\* C1: on a subclass whose refresh completes normally, a call of end()
\* produces exactly refresh(cursor=False) and then the stop of the live
\* session, in that order, returns, and nothing comes after the stop.
C1_EndRefreshesThenStops ==
    (kind = "Subclass" /\ lastOp.name = "end" /\ lastOp.completes) =>
        /\ lastEvents = <<RefreshEv(FALSE), "stop">>
        /\ outcome = "returned"
        /\ live = "stopped"
        /\ SubSeq(log, Len(log) - 1, Len(log)) = lastEvents

C1_Witness ==
    /\ kind = "Subclass" /\ lastOp.name = "end" /\ lastOp.completes
    /\ live = "stopped" /\ log[Len(log)] = "stop"

\* C2: update_from_message(message) and refresh(cursor) of the unextended
\* BaseBlock raise NotImplementedError for every message and both cursor
\* values, never return, and neither start nor stop the live session.
C2_AbstractMethodsRaise ==
    (kind = "BaseBlock" /\ lastOp.name \in {"update_from_message", "refresh"}) =>
        /\ outcome = "NotImplementedError"
        /\ lastEvents = <<>>
        /\ live = "started"
        /\ \A i \in 2..Len(log) : log[i] \notin {"start", "stop"}

C2_Witness ==
    /\ kind = "BaseBlock" /\ lastOp.name = "refresh" /\ lastOp.arg = "False"
    /\ outcome = "NotImplementedError" /\ ncalls > 1

\* C9: end() stops the live session only after its refresh(cursor=False) has
\* completed normally; when refresh raises, as it always does on BaseBlock,
\* the error leaves end(), stop is not called and the session stays as it was
\* (started, on BaseBlock).
C9_EndStopsOnlyAfterRefresh ==
    /\ [](lastOp.name = "end" =>
            /\ outcome # "returned" => (\A i \in 1..Len(lastEvents) : lastEvents[i] # "stop")
            /\ outcome = "returned" => lastEvents = <<RefreshEv(FALSE), "stop">>
            /\ (kind = "Subclass" /\ ~lastOp.completes) => outcome = "SubclassError"
            /\ kind = "BaseBlock" => (outcome = "NotImplementedError" /\ live = "started"))
    /\ [][(ncalls' # ncalls /\ lastOp'.name = "end" /\ outcome' # "returned")
             => (live' = live /\ log' = log)]_vars

C9_Witness ==
    /\ kind = "BaseBlock" /\ lastOp.name = "end"
    /\ outcome = "NotImplementedError" /\ live = "started"

NothingThere(f, p) ==
    /\ ~exists(f, p)
    /\ ~exists(f, join(get_storage_path, p))
    /\ ~exists(f, join(getcwd, p))

\* the files that exist after the last call and did not before it
CreatedFiles == {n \in Universe : fs[n] \in FileKinds /\ pre[n] \notin FileKinds}

UnderStorage(n) ==
    /\ Len(n) > Len(get_storage_path.comps)
    /\ SubSeq(n, 1, Len(get_storage_path.comps)) = get_storage_path.comps

DirMissing(f, p) == dirname(p) # EmptyPath /\ ~exists(f, dirname(p))

ExistingCandidates ==
    {c \in Range(candidates(text)) : path_exists(files, c)}

\* C6: the candidates are the matches of the pattern and each match with its
\* backslashes removed; find_image_path returns an existing candidate that
\* is at least as long as every existing candidate (so the longer of two of
\* different lengths), and None exactly when no candidate exists.
C6_LongestExistingCandidate ==
    found =>
        LET M == Range(re_finditer(text, 1))
            E == {c \in M \cup {strip_backslashes(m) : m \in M} : path_exists(files, c)}
        IN  /\ result = NoMatch <=> E = {}
            /\ E # {} => /\ result \in E
                         /\ \A c \in E : StrLen(c) <= StrLen(result)

C6_Witness ==
    /\ found
    /\ \E c \in ExistingCandidates : StrLen(c) < StrLen(result)
    /\ result \in ExistingCandidates

\* C7: when the text contains exactly one image path that exists, and every
\* other path-like substring of it is a longer decoy that does not exist,
\* find_image_path returns the existing path.
C7_ReturnsExistingAmongDecoys ==
    found =>
        \A e \in PathLike(text) :
            ( /\ files = {Collapse(e)}
              /\ \A d \in PathLike(text) \ {e} :
                    ~path_exists(files, d) /\ StrLen(d) > StrLen(e) )
            => Collapse(result) = Collapse(e)

====
